---- MODULE Spec2Model ----
(***************************************************************************)
(* Start-up sequence of influxd (cmd/influxd/run.go): Run, openBroker,     *)
(* joinLog, openServer, joinServer, parseURLs and fileExists.              *)
(*                                                                         *)
(* A string is a sequence of one-character strings.  A url.URL is          *)
(* identified with the text it was parsed from.  The calls Run makes into  *)
(* the broker, raft, messaging, server and net packages are recorded, in   *)
(* order and with their result, in the history variable calls; the result  *)
(* of each such call is chosen by the environment.                         *)
(***************************************************************************)
EXTENDS Naturals, Sequences, FiniteSets

\* Longest -join flag value and longest configured join string explored.
MaxLen == 2
MaxCfgLen == 1

\* Most entries of config.Graphites explored.
MaxGraphites == 1

\* Characters of the explored strings: a host character (also a hex digit),
\* the separator of parseURLs and the escape character of url.Parse.
Chars == {"a", ",", "%"}

\* The hexadecimal digits among the characters of a string.
HexDigits == {"a"}

Strings(n) == UNION {[1..k -> Chars] : k \in 0..n}

\* config.BrokerURL(), the URL of the local broker.
BrokerURL == <<"l">>

\* A URL the messaging client may have loaded from its own file on Open.
StoredURL == <<"f">>

\* The optional services of Run, lines 138-281, and the configurations of
\* them that are explored: none, the background ones, the ingestion
\* listeners.
Ingestion == {"collectd", "udp", "graphite", "opentsdb"}
Background == {"retention", "snapshot", "admin", "monitoring", "reporting"}
EnabledSets == {{}, Background, Ingestion}

\* Messages of the Fatalf of joinLog (line 381) and of joinServer (line 451).
JoinLogFatal == "join: failed to connect raft log to any specified server"
JoinServerFatal == "join: failed to connect data node to any specified server"

\* Outcomes of os.Stat on a directory.
StatResults == {"exists", "notexist", "error"}

VARIABLES
    pc,          \* position of the main goroutine in Run
    join,        \* the join argument of Run (the -join flag)
    brokerStat,  \* result of os.Stat(config.BrokerDir()) at start-up
    dataStat,    \* result of os.Stat(config.DataDir()) at start-up
    initBroker,  \* run.go:85-86
    initServer,  \* run.go:85,90,93
    joinURLs,    \* run.go:96-101
    i,           \* position of the range loop in joinLog / joinServer
    logFSM,      \* l.FSM: "nil" or "broker"
    clientURLs,  \* c.URLs() of the messaging client
    serve,       \* the goroutines running an accept loop under log.Fatal
    enabled,     \* the optional services the configuration enables
    nGraphite,   \* entries of config.Graphites the range loop has visited
    calls,       \* history of the calls made, in order
    fatalMsg     \* message of the log.Fatal that halted the process

vars == <<pc, join, brokerStat, dataStat, initBroker, initServer, joinURLs, i,
          logFSM, clientURLs, serve, enabled, nGraphite, calls, fatalMsg>>

----------------------------------------------------------------------------
\* Pure functions of run.go.

\* fileExists: false only when os.Stat reports that the path does not exist.
fileExists(stat) == stat # "notexist"

\* strings.Split(s, ","): the segments between separators, in order.
RECURSIVE Split(_)
Split(s) ==
    IF \A k \in 1..Len(s) : s[k] # ","
    THEN <<s>>
    ELSE LET p == CHOOSE k \in 1..Len(s) :
                      s[k] = "," /\ \A j \in 1..(k - 1) : s[j] # ","
         IN  <<SubSeq(s, 1, p - 1)>> \o Split(SubSeq(s, p + 1, Len(s)))

\* url.Parse succeeds on a segment unless it holds a malformed escape: a "%"
\* that is not followed by two hexadecimal digits.
URLParseOK(seg) ==
    \A k \in 1..Len(seg) :
        seg[k] = "%" =>
            /\ k + 2 <= Len(seg)
            /\ seg[k + 1] \in HexDigits
            /\ seg[k + 2] \in HexDigits

\* parseURLs: nil for the empty string, else one URL per comma-separated
\* segment; err when some segment does not parse (log.Fatalf).
parseURLs(s) ==
    IF s = <<>>
    THEN [err |-> FALSE, urls |-> <<>>]
    ELSE LET segs == Split(s)
         IN  IF \E k \in 1..Len(segs) : ~URLParseOK(segs[k])
             THEN [err |-> TRUE, urls |-> <<>>]
             ELSE [err |-> FALSE, urls |-> segs]

\* run.go:97-101: the string the join URLs are parsed from.
JoinSource(j, cfg) == IF j = <<>> THEN cfg ELSE j

\* run.go:93.
InitServerOf(dataMissing, brokerMissing) == dataMissing \/ brokerMissing

\* LogBootstrap without the test of initializing at line 357.
LogBootstrapUnguarded(initializing, urls) ==
    IF Len(urls) = 0 THEN "initialize" ELSE "join"

\* run.go:357-365: how openBroker bootstraps the raft log.
LogBootstrap(initializing, urls) ==
    IF initializing
    THEN IF Len(urls) = 0 THEN "initialize" ELSE "join"
    ELSE "none"

\* ServerBootstrap without the test of initServer at line 423.
ServerBootstrapUnguarded(initS, initB, urls) ==
    IF Len(urls) = 0
    THEN IF initB THEN "initialize" ELSE "none"
    ELSE "join"

\* ServerBootstrap without the test of initBroker at line 425.
ServerBootstrapNoBrokerTest(initS, initB, urls) ==
    IF initS
    THEN IF Len(urls) = 0 THEN "initialize" ELSE "join"
    ELSE "none"

\* run.go:423-433: how openServer bootstraps the server.
ServerBootstrap(initS, initB, urls) ==
    IF initS
    THEN IF Len(urls) = 0
         THEN IF initB THEN "initialize" ELSE "none"
         ELSE "join"
    ELSE "none"

\* ClientJoinURLs without the fallback to the broker URL at lines 388-390.
ClientJoinURLsNoFallback(urls) == urls

\* run.go:387-390: the broker URLs given to the messaging client.
ClientJoinURLs(urls) == IF Len(urls) = 0 THEN <<BrokerURL>> ELSE urls

\* run.go:401: the client can reach a broker.
ClientHasURLs(urls) == Len(urls) # 0

----------------------------------------------------------------------------
\* History of calls.

Call(op, urls, idx, ok) == [op |-> op, urls |-> urls, idx |-> idx, ok |-> ok]

Record(op, ok) == calls' = Append(calls, Call(op, <<>>, 0, ok))

Called(op) == \E k \in 1..Len(calls) : calls[k].op = op
Succeeded(op) == \E k \in 1..Len(calls) : calls[k].op = op /\ calls[k].ok
Failed(op) == \E k \in 1..Len(calls) : calls[k].op = op /\ ~calls[k].ok

\* log.Fatal / log.Fatalf: the process exits.
Fatal(msg) == pc' = "fatal" /\ fatalMsg' = msg

Goto(l) == pc' = l /\ fatalMsg' = fatalMsg

----------------------------------------------------------------------------
Init ==
    /\ pc = "Run"
    /\ join \in Strings(MaxLen)
    /\ brokerStat = "unknown"
    /\ dataStat = "unknown"
    /\ initBroker = FALSE
    /\ initServer = FALSE
    /\ joinURLs = <<>>
    /\ i = 0
    /\ logFSM = "nil"
    /\ clientURLs = <<>>
    /\ serve = {}
    /\ enabled = {}
    /\ nGraphite = 0
    /\ calls = <<>>
    /\ fatalMsg = ""

\* Run, lines 85-93: which directories are missing.
CheckDirs ==
    /\ pc = "Run"
    /\ \E bs \in StatResults, ds \in StatResults :
          /\ brokerStat' = bs
          /\ dataStat' = ds
          /\ initBroker' = ~fileExists(bs)
          /\ initServer' = InitServerOf(~fileExists(ds), ~fileExists(bs))
    /\ Goto("parseJoin")
    /\ UNCHANGED <<join, joinURLs, i, logFSM, clientURLs, serve, enabled, nGraphite,
                   calls>>

\* Run, lines 95-101: join URLs from the flag, else from the configuration.
ParseJoinURLs ==
    /\ pc = "parseJoin"
    /\ \E cfg \in Strings(MaxCfgLen) :
          LET r == parseURLs(JoinSource(join, cfg))
          IN  IF r.err
              THEN Fatal("cannot parse urls") /\ UNCHANGED joinURLs
              ELSE Goto("brokerOpen") /\ joinURLs' = r.urls
    /\ UNCHANGED <<join, brokerStat, dataStat, initBroker, initServer, i,
                   logFSM, clientURLs, serve, enabled, nGraphite, calls>>

\* State that openBroker and joinLog leave alone.
BrokerFrame ==
    UNCHANGED <<join, brokerStat, dataStat, initBroker, initServer, joinURLs,
                clientURLs, serve, enabled, nGraphite>>

\* openBroker, line 347: what b.Open's success leaves attached to l.FSM.
AttachedFSM == "broker"

\* openBroker, lines 331-347: create log and broker, open the broker and
\* attach it as the state machine of the log.
BrokerOpen ==
    /\ pc = "brokerOpen"
    /\ \E ok \in BOOLEAN :
          /\ Record("Broker.Open", ok)
          /\ IF ok
             THEN Goto("logOpen") /\ logFSM' = AttachedFSM
             ELSE Fatal("failed to open broker") /\ UNCHANGED logFSM
    /\ UNCHANGED i
    /\ BrokerFrame

\* AfterLogOpen with the error of l.Open ignored.
AfterLogOpenIgnoringError(ok) == "bootstrapLog"

\* openBroker, lines 350-352: where a result of l.Open leads.
AfterLogOpen(ok) == IF ok THEN "bootstrapLog" ELSE "fatal"

\* openBroker, lines 350-352: open the raft log inside the broker directory.
LogOpen ==
    /\ pc = "logOpen"
    /\ \E ok \in BOOLEAN :
          /\ Record("Log.Open", ok)
          /\ IF AfterLogOpen(ok) = "fatal"
             THEN Fatal("raft")
             ELSE Goto(AfterLogOpen(ok))
    /\ UNCHANGED <<i, logFSM>>
    /\ BrokerFrame

\* openBroker, lines 357-367: initialize a new cluster, join one, or return.
BootstrapLog ==
    /\ pc = "bootstrapLog"
    /\ LET mode == LogBootstrap(initBroker, joinURLs)
       IN  CASE mode = "initialize" ->
                   /\ \E ok \in BOOLEAN :
                         /\ Record("Log.Initialize", ok)
                         /\ IF ok THEN Goto("listen")
                                  ELSE Fatal("initialize raft log")
                   /\ UNCHANGED i
             [] mode = "join" ->
                   /\ Goto("joinLog")
                   /\ i' = 1
                   /\ UNCHANGED calls
             [] OTHER ->
                   /\ Goto("listen")
                   /\ UNCHANGED <<i, calls>>
    /\ UNCHANGED logFSM
    /\ BrokerFrame

\* JoinLogStep without the Fatalf at line 381: joinLog returns.
JoinLogStepNoFatal ==
    /\ pc = "joinLog"
    /\ IF i <= Len(joinURLs)
       THEN \E ok \in BOOLEAN :
               /\ calls' = Append(calls, Call("Log.Join", <<joinURLs[i]>>, i, ok))
               /\ IF ok
                  THEN Goto("listen") /\ i' = 0
                  ELSE Goto("joinLog") /\ i' = i + 1
       ELSE /\ Goto("listen")
            /\ UNCHANGED <<i, calls>>
    /\ UNCHANGED logFSM
    /\ BrokerFrame

\* JoinLogStep without the return at line 378: the loop goes on after a
\* successful Join.
JoinLogStepNoReturn ==
    /\ pc = "joinLog"
    /\ IF i <= Len(joinURLs)
       THEN \E ok \in BOOLEAN :
               /\ calls' = Append(calls, Call("Log.Join", <<joinURLs[i]>>, i, ok))
               /\ Goto("joinLog")
               /\ i' = i + 1
       ELSE /\ Fatal(JoinLogFatal)
            /\ UNCHANGED <<i, calls>>
    /\ UNCHANGED logFSM
    /\ BrokerFrame

\* joinLog, lines 373-381: one iteration of the range loop, or the Fatalf
\* after it.
JoinLogStep ==
    /\ pc = "joinLog"
    /\ IF i <= Len(joinURLs)
       THEN \E ok \in BOOLEAN :
               /\ calls' = Append(calls, Call("Log.Join", <<joinURLs[i]>>, i, ok))
               /\ IF ok
                  THEN Goto("listen") /\ i' = 0
                  ELSE Goto("joinLog") /\ i' = i + 1
       ELSE /\ Fatal(JoinLogFatal)
            /\ UNCHANGED <<i, calls>>
    /\ UNCHANGED logFSM
    /\ BrokerFrame

\* State that Run leaves alone between openBroker and the end.
RunFrame ==
    UNCHANGED <<join, brokerStat, dataStat, initBroker, initServer, joinURLs,
                logFSM, nGraphite>>

\* AfterListen with the error of net.Listen ignored.
AfterListenIgnoringError(ok) == "continuousQueries"

\* Run, lines 114-117: where a result of net.Listen leads.
AfterListen(ok) == IF ok THEN "continuousQueries" ELSE "fatal"

\* Run, lines 107-124: bind the broker listener, then serve it in a goroutine.
Listen ==
    /\ pc = "listen"
    /\ \E ok \in BOOLEAN :
          /\ Record("net.Listen", ok)
          /\ IF AfterListen(ok) = "fatal"
             THEN Fatal("TCP server failed to listen") /\ UNCHANGED serve
             ELSE Goto(AfterListen(ok)) /\ serve' = serve \cup {"broker"}
    /\ UNCHANGED <<i, clientURLs, enabled>>
    /\ RunFrame

\* Run, lines 119-122 and 159-164: http.Serve / http.ListenAndServe returned
\* in a goroutine; the goroutine calls log.Fatal.
ServeFail ==
    /\ pc # "fatal"
    /\ \E r \in serve :
          /\ Fatal(IF r = "broker" THEN "TCP server failed to server"
                                   ELSE "snapshot endpoint")
          /\ calls' = Append(calls, Call("http.Serve", <<>>, 0, FALSE))
    /\ UNCHANGED <<i, clientURLs, serve, enabled>>
    /\ RunFrame

\* Run, lines 127-131: the continuous query loop, unless disabled.
ContinuousQueries ==
    /\ pc = "continuousQueries"
    /\ \E disable \in BOOLEAN :
          IF disable
          THEN UNCHANGED calls
          ELSE Record("RunContinuousQueryLoop", TRUE)
    /\ Goto("clientSetURLs")
    /\ UNCHANGED <<i, clientURLs, serve, enabled>>
    /\ RunFrame

\* What c.URLs() may return after c.Open: the URLs set, the URLs the client
\* stored in its file on an earlier run, or none.
URLsAfterOpen(set) == {set, <<StoredURL>>, <<>>}

\* openServer, lines 387-394: create the messaging client and give it the
\* broker URLs.
ClientSetURLs ==
    /\ pc = "clientSetURLs"
    /\ calls' = Append(calls, Call("Client.SetURLs", ClientJoinURLs(joinURLs),
                                   0, TRUE))
    /\ clientURLs' = ClientJoinURLs(joinURLs)
    /\ Goto("clientOpen")
    /\ UNCHANGED <<i, serve, enabled>>
    /\ RunFrame

\* openServer, lines 396-398: open the messaging client.
ClientOpen ==
    /\ pc = "clientOpen"
    /\ \E ok \in BOOLEAN :
          IF ok
          THEN \E after \in URLsAfterOpen(clientURLs) :
                  /\ calls' = Append(calls, Call("Client.Open", after, 0, TRUE))
                  /\ clientURLs' = after
                  /\ Goto("checkClient")
          ELSE /\ calls' = Append(calls, Call("Client.Open", clientURLs, 0, FALSE))
               /\ UNCHANGED clientURLs
               /\ Fatal("messaging client error")
    /\ UNCHANGED <<i, serve, enabled>>
    /\ RunFrame

\* openServer, lines 401-403: no broker can be reached without a URL.
CheckClient ==
    /\ pc = "checkClient"
    /\ IF ClientHasURLs(clientURLs)
       THEN Goto("serverOpen")
       ELSE Fatal("messaging client has no broker URLs")
    /\ UNCHANGED <<i, clientURLs, serve, enabled, calls>>
    /\ RunFrame

\* openServer, lines 406-420: create and open the server.
ServerOpen ==
    /\ pc = "serverOpen"
    /\ \E ok \in BOOLEAN :
          /\ Record("Server.Open", ok)
          /\ IF ok THEN Goto("bootstrapServer")
                   ELSE Fatal("failed to open data server")
    /\ UNCHANGED <<i, clientURLs, serve, enabled>>
    /\ RunFrame

\* openServer, lines 423-435: initialize the server, join it, or return it.
BootstrapServer ==
    /\ pc = "bootstrapServer"
    /\ LET mode == ServerBootstrap(initServer, initBroker, joinURLs)
       IN  CASE mode = "initialize" ->
                   /\ \E ok \in BOOLEAN :
                         /\ Record("Server.Initialize", ok)
                         /\ IF ok THEN Goto("services")
                                  ELSE Fatal("server initialization error")
                   /\ UNCHANGED i
             [] mode = "join" ->
                   /\ Goto("joinServer")
                   /\ i' = 1
                   /\ UNCHANGED calls
             [] OTHER ->
                   /\ Goto("services")
                   /\ UNCHANGED <<i, calls>>
    /\ UNCHANGED <<clientURLs, serve, enabled>>
    /\ RunFrame

\* joinServer, lines 443-451: one iteration of the range loop, or the Fatalf
\* after it.
JoinServerStep ==
    /\ pc = "joinServer"
    /\ IF i <= Len(joinURLs)
       THEN \E ok \in BOOLEAN :
               /\ calls' = Append(calls, Call("Server.Join", <<joinURLs[i]>>, i, ok))
               /\ IF ok
                  THEN Goto("services") /\ i' = 0
                  ELSE Goto("joinServer") /\ i' = i + 1
       ELSE /\ Fatal(JoinServerFatal)
            /\ UNCHANGED <<i, calls>>
    /\ UNCHANGED <<clientURLs, serve, enabled>>
    /\ RunFrame

\* State that the services of Run leave alone.
ServiceFrame ==
    UNCHANGED <<join, brokerStat, dataStat, initBroker, initServer, joinURLs,
                i, logFSM, clientURLs, enabled>>

\* A call whose failure is fatal.
CallOrFatal(op, msg, next) ==
    \E ok \in BOOLEAN :
        /\ Record(op, ok)
        /\ IF ok THEN Goto(next) ELSE Fatal(msg)

\* A call whose failure is only logged.
CallOrLog(op, next) ==
    /\ \E ok \in BOOLEAN : Record(op, ok)
    /\ Goto(next)

\* A go statement: the goroutine is started and its result is discarded.
Go(op, next) ==
    /\ Record(op, TRUE)
    /\ Goto(next)

Skip(next) == Goto(next) /\ UNCHANGED calls

\* Run, lines 134-135: openServer has returned the server; the enable flags
\* of the configuration are the ones the rest of Run reads.
ServerReturned ==
    /\ pc = "services"
    /\ enabled' \in EnabledSets
    /\ Goto("retention")
    /\ UNCHANGED <<join, brokerStat, dataStat, initBroker, initServer, joinURLs,
                   i, logFSM, clientURLs, serve, nGraphite, calls>>

\* Run, lines 138-144: retention policy enforcement.
Retention ==
    /\ pc = "retention"
    /\ IF "retention" \in enabled
       THEN CallOrFatal("StartRetentionPolicyEnforcement",
                        "retention policy enforcement failed", "shardPreCreate")
       ELSE Skip("shardPreCreate")
    /\ UNCHANGED <<serve, nGraphite>>
    /\ ServiceFrame

\* Run, lines 147-151: shard group pre-create, always started.
ShardGroupsPreCreate ==
    /\ pc = "shardPreCreate"
    /\ CallOrFatal("StartShardGroupsPreCreate", "shard group pre-create failed",
                   "snapshot")
    /\ UNCHANGED <<serve, nGraphite>>
    /\ ServiceFrame

\* Run, lines 154-169: the snapshot endpoint, served in a goroutine under
\* log.Fatal.
Snapshot ==
    /\ pc = "snapshot"
    /\ serve' = IF "snapshot" \in enabled THEN serve \cup {"snapshot"} ELSE serve
    /\ Skip("admin")
    /\ UNCHANGED nGraphite
    /\ ServiceFrame

\* Run, lines 172-177: the admin interface, served in a goroutine.
Admin ==
    /\ pc = "admin"
    /\ IF "admin" \in enabled
       THEN Go("go admin.ListenAndServe", "collectd")
       ELSE Skip("collectd")
    /\ UNCHANGED <<serve, nGraphite>>
    /\ ServiceFrame

\* Run, lines 180-188: the collectd server; a failure is logged.
Collectd ==
    /\ pc = "collectd"
    /\ IF "collectd" \in enabled
       THEN CallOrLog("collectd.ListenAndServe", "udp")
       ELSE Skip("udp")
    /\ UNCHANGED <<serve, nGraphite>>
    /\ ServiceFrame

\* Run, lines 191-198: the UDP listener; a failure is logged.
UDP ==
    /\ pc = "udp"
    /\ IF "udp" \in enabled
       THEN CallOrLog("udp.ListenAndServe", "graphite")
       ELSE Skip("graphite")
    /\ UNCHANGED <<serve, nGraphite>>
    /\ ServiceFrame

\* Run, lines 201-204: the range loop over config.Graphites ends, skips an
\* entry that is not enabled, or enters its body for an enabled entry.  The
\* list holds at most MaxGraphites entries, and none unless the
\* configuration has Graphite inputs.
GraphiteLoop ==
    /\ pc = "graphite"
    /\ \/ Skip("opentsdb") /\ nGraphite' = 0
       \/ /\ "graphite" \in enabled
          /\ nGraphite < MaxGraphites
          /\ nGraphite' = nGraphite + 1
          /\ \E entryEnabled \in BOOLEAN :
                IF entryEnabled THEN Skip("graphiteDatabase")
                                ELSE Skip("graphite")
    /\ UNCHANGED serve
    /\ ServiceFrame

\* Run, lines 211-213: the database of a Graphite server.
GraphiteDatabase ==
    /\ pc = "graphiteDatabase"
    /\ CallOrFatal("CreateDatabaseIfNotExists",
                   "failed to create database for Graphite server",
                   "graphiteServer")
    /\ UNCHANGED <<serve, nGraphite>>
    /\ ServiceFrame

\* Run, lines 216-220: graphite.NewServer.
GraphiteNewServer ==
    /\ pc = "graphiteServer"
    /\ CallOrFatal("graphite.NewServer", "failed to initialize Graphite server",
                   "graphiteListen")
    /\ UNCHANGED <<serve, nGraphite>>
    /\ ServiceFrame

\* Run, lines 222-225: the Graphite server listens; next entry.
GraphiteListen ==
    /\ pc = "graphiteListen"
    /\ CallOrFatal("graphite.ListenAndServe", "failed to start Graphite server",
                   "graphite")
    /\ UNCHANGED <<serve, nGraphite>>
    /\ ServiceFrame

\* Run, lines 229-237: the database of the OpenTSDB server, when enabled.
OpenTSDBDatabase ==
    /\ pc = "opentsdb"
    /\ IF "opentsdb" \in enabled
       THEN CallOrFatal("CreateDatabaseIfNotExists",
                        "failed to create database for OpenTSDB server",
                        "opentsdbPolicy")
       ELSE Skip("monitoring")
    /\ UNCHANGED <<serve, nGraphite>>
    /\ ServiceFrame

\* Run, lines 239-245: the retention policy of the OpenTSDB server, when one
\* is configured.
OpenTSDBPolicy ==
    /\ pc = "opentsdbPolicy"
    /\ \E policySet \in BOOLEAN :
          IF policySet
          THEN CallOrFatal("CreateRetentionPolicyIfNotExists",
                           "failed to create retention policy for OpenTSDB",
                           "opentsdbListen")
          ELSE Skip("opentsdbListen")
    /\ UNCHANGED <<serve, nGraphite>>
    /\ ServiceFrame

\* Run, lines 247-250: the OpenTSDB server, served in a goroutine.
OpenTSDBListen ==
    /\ pc = "opentsdbListen"
    /\ Go("go opentsdb.ListenAndServe", "monitoring")
    /\ UNCHANGED <<serve, nGraphite>>
    /\ ServiceFrame

\* Run, lines 254-262: the database of self-monitoring, when enabled.
MonitoringDatabase ==
    /\ pc = "monitoring"
    /\ IF "monitoring" \in enabled
       THEN CallOrFatal("CreateDatabaseIfNotExists",
                        "failed to create database for internal monitoring",
                        "monitoringPolicy")
       ELSE Skip("reporting")
    /\ UNCHANGED <<serve, nGraphite>>
    /\ ServiceFrame

\* Run, lines 264-268: the retention policy of self-monitoring.
MonitoringPolicy ==
    /\ pc = "monitoringPolicy"
    /\ CallOrFatal("CreateRetentionPolicyIfNotExists",
                   "failed to create retention policy for internal monitoring",
                   "monitoringStart")
    /\ UNCHANGED <<serve, nGraphite>>
    /\ ServiceFrame

\* Run, lines 270-271: StartSelfMonitoring, which returns nothing.
MonitoringStart ==
    /\ pc = "monitoringStart"
    /\ Go("StartSelfMonitoring", "reporting")
    /\ UNCHANGED <<serve, nGraphite>>
    /\ ServiceFrame

\* Run, lines 276-283: the reporting loop, started in a goroutine unless
\* reporting is disabled or the broker has no cluster id; then Run returns.
Reporting ==
    /\ pc = "reporting"
    /\ IF "reporting" \in enabled
       THEN \E clusterIDSet \in BOOLEAN :
               IF clusterIDSet THEN Go("go StartReportingLoop", "done")
                               ELSE Skip("done")
       ELSE Skip("done")
    /\ UNCHANGED <<serve, nGraphite>>
    /\ ServiceFrame

Next ==
    \/ CheckDirs
    \/ ParseJoinURLs
    \/ BrokerOpen
    \/ LogOpen
    \/ BootstrapLog
    \/ JoinLogStep
    \/ Listen
    \/ ServeFail
    \/ ContinuousQueries
    \/ ClientSetURLs
    \/ ClientOpen
    \/ CheckClient
    \/ ServerOpen
    \/ BootstrapServer
    \/ JoinServerStep
    \/ ServerReturned
    \/ Retention
    \/ ShardGroupsPreCreate
    \/ Snapshot
    \/ Admin
    \/ Collectd
    \/ UDP
    \/ GraphiteLoop
    \/ GraphiteDatabase
    \/ GraphiteNewServer
    \/ GraphiteListen
    \/ OpenTSDBDatabase
    \/ OpenTSDBPolicy
    \/ OpenTSDBListen
    \/ MonitoringDatabase
    \/ MonitoringPolicy
    \/ MonitoringStart
    \/ Reporting

Spec == Init /\ [][Next]_vars

----------------------------------------------------------------------------
\* Vocabulary of the properties.

\* Every call to b is preceded by a successful call to a.
Precedes(a, b) ==
    \A q \in 1..Len(calls) :
        calls[q].op = b => \E p \in 1..(q - 1) : calls[p].op = a /\ calls[p].ok

\* The last call made is a failed call to op.
LastFailed(op) ==
    /\ Len(calls) > 0
    /\ calls[Len(calls)].op = op
    /\ ~calls[Len(calls)].ok

\* The calls to l.Join, in the order made.
LogJoins == SelectSeq(calls, LAMBDA c : c.op = "Log.Join")

\* Positions of Run at which openBroker has returned.
AfterOpenBroker ==
    {"listen", "continuousQueries", "clientSetURLs", "clientOpen",
     "checkClient", "serverOpen", "bootstrapServer", "joinServer"}

\* Positions of Run at which openServer has returned.
AfterOpenServer ==
    {"services", "retention", "shardPreCreate", "snapshot", "admin",
     "collectd", "udp", "graphite", "graphiteDatabase", "graphiteServer",
     "graphiteListen", "opentsdb", "opentsdbPolicy", "opentsdbListen",
     "monitoring", "monitoringPolicy", "monitoringStart", "reporting", "done"}

\* Start-up has looked at the directories.
DirsChecked == brokerStat # "unknown"

\* Calls that start retention enforcement, shard pre-create or an ingestion
\* listener (Run, lines 138-251), or prepare one.
ServiceOps ==
    {"StartRetentionPolicyEnforcement", "StartShardGroupsPreCreate",
     "collectd.ListenAndServe", "udp.ListenAndServe",
     "CreateDatabaseIfNotExists", "graphite.NewServer",
     "graphite.ListenAndServe", "go opentsdb.ListenAndServe"}

----------------------------------------------------------------------------
\* C1: on a first run (broker directory missing) with an empty -join flag,
\* openBroker calls Log.Initialize and never Log.Join, whatever the
\* configuration.
C1_FirstRunInitializes ==
    (brokerStat = "notexist" /\ join = <<>>) =>
        /\ ~Called("Log.Join")
        /\ (pc \in AfterOpenBroker \cup AfterOpenServer => Called("Log.Initialize"))

\* C2: when the broker directory exists at start-up, openBroker calls
\* neither Log.Initialize nor Log.Join whatever the join URLs are; join
\* addresses reach the raft log only when the directory was missing.
C2_BrokerStateAuthoritative ==
    /\ (DirsChecked /\ fileExists(brokerStat)) =>
           (~Called("Log.Initialize") /\ ~Called("Log.Join"))
    /\ (Called("Log.Join") \/ Called("Log.Initialize")) => brokerStat = "notexist"

C2_Witness ==
    /\ brokerStat = "exists"
    /\ join # <<>>
    /\ Len(joinURLs) > 0
    /\ pc = "listen"
    /\ Succeeded("Log.Open")

\* C3, as stated: when the data directory exists at start-up, openServer
\* calls neither Server.Initialize nor Server.Join, whether or not the
\* broker directory exists.
C3_DataStateAuthoritative ==
    dataStat = "exists" =>
        (~Called("Server.Initialize") /\ ~Called("Server.Join"))

\* C3, amended: when the data directory and the broker directory both exist
\* at start-up, openServer calls neither Server.Initialize nor Server.Join;
\* they are called only in runs where one of the two was missing.
C3_BothStatesAuthoritative ==
    /\ (DirsChecked /\ fileExists(dataStat) /\ fileExists(brokerStat)) =>
           (~Called("Server.Initialize") /\ ~Called("Server.Join"))
    /\ (Called("Server.Initialize") \/ Called("Server.Join")) =>
           (dataStat = "notexist" \/ brokerStat = "notexist")

C3_Witness ==
    /\ dataStat = "exists"
    /\ brokerStat = "exists"
    /\ Len(joinURLs) > 0
    /\ pc = "services"
    /\ Succeeded("Server.Open")

\* Log.Join (Server.Join) was attempted against every join URL and failed.
AllLogJoinsFailed ==
    /\ Len(joinURLs) > 0
    /\ \A k \in 1..Len(joinURLs) :
          \E q \in 1..Len(calls) :
              calls[q].op = "Log.Join" /\ calls[q].idx = k /\ ~calls[q].ok
AllServerJoinsFailed ==
    /\ Len(joinURLs) > 0
    /\ \A k \in 1..Len(joinURLs) :
          \E q \in 1..Len(calls) :
              calls[q].op = "Server.Join" /\ calls[q].idx = k /\ ~calls[q].ok

\* C4: when Log.Join has failed for every join URL the process is at the
\* Fatalf of joinLog or has halted there, and the listener is not bound, the
\* continuous query loop not started and openServer not entered; when
\* Server.Join has failed for every URL the process is at the Fatalf of
\* joinServer or has halted, and no retention enforcement, shard pre-create
\* or ingestion listener has been started.
C4_NeverRunsUnjoined ==
    /\ AllLogJoinsFailed =>
          /\ \/ pc = "joinLog" /\ i = Len(joinURLs) + 1
             \/ pc = "fatal" /\ fatalMsg = JoinLogFatal
          /\ ~Called("net.Listen")
          /\ serve = {}
          /\ ~Called("RunContinuousQueryLoop")
          /\ ~Called("Client.SetURLs")
          /\ ~Called("Server.Open")
    /\ AllServerJoinsFailed =>
          /\ \/ pc = "joinServer" /\ i = Len(joinURLs) + 1
             \/ pc = "fatal"
          /\ \A op \in ServiceOps : ~Called(op)
    /\ (pc \in AfterOpenBroker \cup AfterOpenServer
            /\ brokerStat = "notexist" /\ Len(joinURLs) > 0) =>
          Succeeded("Log.Join")

C4_Witness ==
    /\ pc = "fatal"
    /\ fatalMsg = JoinLogFatal
    /\ brokerStat = "notexist"
    /\ Len(joinURLs) >= 2
    /\ AllLogJoinsFailed

\* C5: joinLog attempts Log.Join against the join URLs in list order, one at
\* a time; nothing is attempted after a success, so at most one Join
\* succeeds and URL k is attempted only after URLs 1..k-1 failed; the fatal
\* outcome of joinLog occurs only after every URL was attempted and failed.
C5_JoinLogInOrder ==
    /\ Len(LogJoins) <= Len(joinURLs)
    /\ \A k \in 1..Len(LogJoins) :
          /\ LogJoins[k].idx = k
          /\ LogJoins[k].urls = <<joinURLs[k]>>
          /\ k < Len(LogJoins) => ~LogJoins[k].ok
    /\ (pc = "fatal" /\ fatalMsg = JoinLogFatal) =>
          /\ Len(LogJoins) = Len(joinURLs)
          /\ \A k \in 1..Len(LogJoins) : ~LogJoins[k].ok

C5_Witness ==
    /\ pc = "listen"
    /\ Len(joinURLs) >= 3
    /\ Len(LogJoins) = 2
    /\ ~LogJoins[1].ok
    /\ LogJoins[2].ok

\* C6: in openBroker Log.Open is called only after Broker.Open succeeded and
\* the broker was attached as the log's FSM; Log.Initialize and Log.Join are
\* called only after Log.Open succeeded; a failure of Broker.Open or of
\* Log.Open halts the process before any later call.
C6_LogNeverOpenWithoutFSM ==
    /\ Precedes("Broker.Open", "Log.Open")
    /\ Called("Log.Open") => logFSM = "broker"
    /\ Precedes("Log.Open", "Log.Initialize")
    /\ Precedes("Log.Open", "Log.Join")
    /\ Failed("Broker.Open") => (pc = "fatal" /\ LastFailed("Broker.Open"))
    /\ Failed("Log.Open") => (pc = "fatal" /\ LastFailed("Log.Open"))

C6_Witness ==
    /\ Called("Log.Join")
    /\ Succeeded("Log.Open")
    /\ Succeeded("Broker.Open")
    /\ logFSM = "broker"

\* The calls openServer makes.
OpenServerOps ==
    {"Client.SetURLs", "Client.Open", "Server.Open", "Server.Initialize",
     "Server.Join"}

\* C7: before openServer makes any call, the raft log's Initialize or Join
\* (when required) has succeeded and net.Listen has returned without error,
\* in that order; only the accept loop runs in a goroutine by then, and only
\* after the listener is bound; a listen failure halts the process before
\* openServer is entered.
C7_BrokerUpBeforeServer ==
    /\ \A op \in OpenServerOps :
          /\ Precedes("net.Listen", op)
          /\ LogBootstrap(initBroker, joinURLs) = "initialize" =>
                 Precedes("Log.Initialize", op)
          /\ LogBootstrap(initBroker, joinURLs) = "join" =>
                 Precedes("Log.Join", op)
    /\ \A q \in 1..Len(calls) :
          calls[q].op = "net.Listen" =>
              \A p \in (q + 1)..Len(calls) :
                  calls[p].op \notin {"Log.Initialize", "Log.Join", "Log.Open"}
    /\ (serve # {}) => Succeeded("net.Listen")
    /\ (pc \notin AfterOpenServer \cup {"fatal"}) => serve \subseteq {"broker"}
    /\ Failed("net.Listen") =>
          (pc = "fatal" /\ LastFailed("net.Listen") /\ serve = {})

C7_Witness ==
    /\ Called("Server.Join")
    /\ Succeeded("Log.Join")
    /\ "broker" \in serve
    /\ pc = "joinServer"

\* C8: in every run where the data directory or the broker directory was
\* missing (initServer), openServer has called exactly one of
\* Server.Initialize and Server.Join when it returns the server.
C8_UninitializedServerBootstrapped ==
    (pc \in AfterOpenServer /\ initServer) =>
        (Called("Server.Initialize") # Called("Server.Join"))

\* C9: Initialize and Join are mutually exclusive on the raft log and on the
\* server; Server.Initialize is called only after Log.Initialize succeeded;
\* when the broker directory was missing, Server.Join is called only after
\* Log.Join succeeded, and once openServer has returned the log was
\* initialized iff the server was, and joined iff the server was.
C9_SameBootstrap ==
    /\ ~(Called("Log.Initialize") /\ Called("Log.Join"))
    /\ ~(Called("Server.Initialize") /\ Called("Server.Join"))
    /\ Precedes("Log.Initialize", "Server.Initialize")
    /\ Called("Log.Initialize") => ~Called("Server.Join")
    /\ Called("Log.Join") => ~Called("Server.Initialize")
    /\ brokerStat = "notexist" => Precedes("Log.Join", "Server.Join")
    /\ (brokerStat = "notexist" /\ pc \in AfterOpenServer) =>
          /\ Succeeded("Log.Initialize") <=> Succeeded("Server.Initialize")
          /\ Succeeded("Log.Join") <=> Succeeded("Server.Join")
          /\ Succeeded("Log.Initialize") # Succeeded("Log.Join")

C9_Witness ==
    /\ pc = "done"
    /\ brokerStat = "notexist"
    /\ Succeeded("Log.Join")
    /\ Succeeded("Server.Join")

\* C10: Client.SetURLs receives the join URLs when at least one is given and
\* otherwise exactly the URL of the local broker, never an empty list;
\* Server.Open is reached only if the client reports at least one URL after
\* Client.Open; a node restarted with existing state and a non-empty join
\* list gives its client the join URLs, not its own broker.
C10_ClientHasBrokerURLs ==
    /\ \A q \in 1..Len(calls) :
          calls[q].op = "Client.SetURLs" =>
              /\ Len(calls[q].urls) >= 1
              /\ Len(joinURLs) >= 1 => calls[q].urls = joinURLs
              /\ Len(joinURLs) = 0 => calls[q].urls = <<BrokerURL>>
              /\ (fileExists(brokerStat) /\ fileExists(dataStat)
                      /\ Len(joinURLs) >= 1) => calls[q].urls # <<BrokerURL>>
    /\ (pc = "serverOpen" \/ Called("Server.Open")) =>
          /\ Len(clientURLs) >= 1
          /\ Succeeded("Client.Open")

C10_Witness ==
    /\ brokerStat = "exists"
    /\ dataStat = "exists"
    /\ Len(joinURLs) >= 2
    /\ Succeeded("Server.Open")
    /\ clientURLs = joinURLs
====
